---- MODULE Spec2Model ----
(***************************************************************************)
(* schema-preview: the public entry points of __init__.py and _cli.py, the *)
(* schema inference engine (_schema.py) and the tree renderer (_tree.py).  *)
(* One behaviour is one call of an entry point:                            *)
(*   schema_of     data --_maybe_load--> data --infer_schema--> tree       *)
(*                 --render--> str                                         *)
(*   preview       as schema_of, then print                                *)
(*   infer_schema  data --infer_schema--> tree, which the caller may hand  *)
(*                 to render                                               *)
(*   main          parse_args, then open + json.load of args.file or       *)
(*                 json.load(sys.stdin), then infer_schema, render, print  *)
(*                                                                         *)
(* Python values are records [tag, base, items, val]:                      *)
(*   tag   is type(value).__name__;                                        *)
(*   base  is the class isinstance() finds the value to be an instance of, *)
(*         among dict, list, tuple, set, frozenset, str and Path           *)
(*         ("object" for every other value): an OrderedDict has tag        *)
(*         "OrderedDict" and base "dict", a namedtuple Point has tag       *)
(*         "Point" and base "tuple";                                       *)
(*   items is <<>> for a scalar, the elements in iteration order for a     *)
(*         list / tuple / set / frozenset, and the (key, value) entries in *)
(*         insertion order for a dict;                                     *)
(*   val   is the text of a str or of a Path (str(path)), <<>> for every   *)
(*         other value.  A text is the sequence of its characters, each a  *)
(*         one-character string; the characters are ASCII, and Nul stands  *)
(*         for U+0000.                                                     *)
(* A SchemaNode is a record [key, types, children, element_type]; Python's *)
(* None is NoneET.                                                         *)
(*                                                                         *)
(* The box-drawing glyphs of _tree.py are not ASCII; each is modelled by   *)
(* an ASCII string of the same length (4 characters):                      *)
(*     U+251C U+2500 U+2500 ' '  ->  "|-- "                                *)
(*     U+2514 U+2500 U+2500 ' '  ->  "+-- "                                *)
(*     U+2502 ' ' ' ' ' '        ->  "|   "                                *)
(***************************************************************************)
EXTENDS Integers, Sequences, FiniteSets, TLC

VARIABLES
    entry,       \* the entry point called: "schema_of", "preview",
                 \* "infer_schema" or "main"
    args,        \* main: what parse_args makes of sys.argv
    stdin,       \* main: sys.stdin
    stdout,      \* what was written to sys.stdout, in order
    data,        \* the value given to the entry point, then the one loaded
    key,         \* the label of the root node
    max_items,   \* the sampling limit
    pc,          \* "start", "parsed" (parse_args is over), "loaded" (the
                 \* loading is over), "inferred" (infer_schema is over),
                 \* "rendered", "printed"
    result,      \* the tree infer_schema returned (NoNode before, or if it raised)
    warns,       \* the messages given to warnings.warn, in order
    raised,      \* the exception that ended the call, "none" if there is none
    lines,       \* the list of lines render filled
    text         \* the string render returned

vars == <<entry, args, stdin, stdout, data, key, max_items, pc, result, warns,
          raised, lines, text>>

----------------------------------------------------------------------------
(* Bounds of the input space                                               *)

\* longest list / tuple / set / frozenset of non-dict elements
MaxLen == 3
\* longest list / tuple of dicts
MaxDicts == 2
\* largest max_items tried (the smallest is -1)
MaxItems == 3

----------------------------------------------------------------------------
(* Python values                                                           *)

Scalar(t) == [tag |-> t, base |-> "object", items |-> <<>>, val |-> <<>>]
IntV == Scalar("int")
NoneV == Scalar("NoneType")

\* the str with text s
Str(s) == [tag |-> "str", base |-> "str", items |-> <<>>, val |-> s]
StrV == Str(<<"s">>)

\* an instance of class cls, itself or a subclass of the built-in class b
InstanceOf(cls, b, xs) == [tag |-> cls, base |-> b, items |-> xs, val |-> <<>>]

ListOf(xs) == InstanceOf("list", "list", xs)
TupleOf(xs) == InstanceOf("tuple", "tuple", xs)
Entry(k, v) == [k |-> k, v |-> v]
DictOf(es) == InstanceOf("dict", "dict", es)

\* collections.OrderedDict, a subclass of dict
OrderedDictOf(es) == InstanceOf("OrderedDict", "dict", es)
\* class MyList(list)
MyListOf(xs) == InstanceOf("MyList", "list", xs)
\* Point = namedtuple("Point", "x y"), a subclass of tuple
PointOf(x, y) == InstanceOf("Point", "tuple", <<x, y>>)

\* isinstance(data, (list, tuple, set, frozenset))
SequenceClasses == {"list", "tuple", "set", "frozenset"}

\* isinstance(data, dict): true of dict and of every subclass of it
IsDict(v) == v.base = "dict"
\* true of the four classes and of every subclass of them
IsSequence(v) == v.base \in SequenceClasses

\* Python's None in SchemaNode.element_type
NoneET == "None"

SchemaNode(k, ts, cs, et) ==
    [key |-> k, types |-> ts, children |-> cs, element_type |-> et]

\* the value of result when no node was returned
NoNode == SchemaNode("", <<>>, <<>>, NoneET)

_type_name(v) == v.tag

----------------------------------------------------------------------------
(* sorted() on type names: Python orders str by code point                 *)

TypeOrder ==
    <<"MyList", "NoneType", "OrderedDict", "Point", "PosixPath",
      "bool", "dict", "float", "frozenset",
      "int", "list", "set", "str", "tuple">>

Rank(t) == CHOOSE i \in 1..Len(TypeOrder) : TypeOrder[i] = t

RECURSIVE Sorted(_)
Sorted(S) ==
    IF S = {} THEN <<>>
    ELSE LET m == CHOOSE x \in S : \A y \in S : Rank(x) <= Rank(y)
         IN  <<m>> \o Sorted(S \ {m})

\* repr() of a list of str: ['a', 'b']
RECURSIVE ReprTail(_)
ReprTail(ts) ==
    IF ts = <<>> THEN ""
    ELSE ", '" \o Head(ts) \o "'" \o ReprTail(Tail(ts))

Repr(ts) ==
    IF ts = <<>> THEN "[]"
    ELSE "['" \o Head(ts) \o "'" \o ReprTail(Tail(ts)) \o "]"

----------------------------------------------------------------------------
(* _schema.py                                                              *)

\* the outcome of a call: the node returned, the warnings emitted in order,
\* and the exception raised ("none" when the call returned)
Returned(n, ws) == [node |-> n, nodes |-> <<n>>, warns |-> ws, err |-> "none"]
ReturnedList(ns, ws) == [node |-> NoNode, nodes |-> ns, warns |-> ws, err |-> "none"]
Raised(e, ws) == [node |-> NoNode, nodes |-> <<>>, warns |-> ws, err |-> e]

\* the sampling left out: every element is inspected
IsliceAll(xs, n) == xs

\* the sampling one element short
IsliceShort(xs, n) == SubSeq(xs, 1, IF n - 1 < Len(xs) THEN n - 1 ELSE Len(xs))

\* list(islice(data, max_items)) for max_items >= 0
Islice(xs, n) == SubSeq(xs, 1, IF n < Len(xs) THEN n ELSE Len(xs))

\* the type names of the message left unsorted (here: in descending order)
RECURSIVE Reversed(_)
Reversed(xs) == IF xs = <<>> THEN <<>> ELSE Append(Reversed(Tail(xs)), Head(xs))

MixedWarningUnsorted(k, type_names) ==
    "Key '" \o k \o "': mixed types in list: " \o Repr(Reversed(Sorted(type_names)))

MixedWarning(k, type_names) ==
    "Key '" \o k \o "': mixed types in list: " \o Repr(Sorted(type_names))

\* first-seen order of the keys of the dicts (all_keys)
RECURSIVE EntryKeys(_, _)
EntryKeys(es, seen) ==
    IF es = <<>> THEN seen
    ELSE EntryKeys(Tail(es),
                   IF \E i \in 1..Len(seen) : seen[i] = Head(es).k
                   THEN seen ELSE Append(seen, Head(es).k))

\* only the first dict's keys are kept
AllKeysOfFirst(dicts, seen) ==
    IF dicts = <<>> THEN seen ELSE EntryKeys(Head(dicts).items, seen)

RECURSIVE AllKeys(_, _)
AllKeys(dicts, seen) ==
    IF dicts = <<>> THEN seen
    ELSE AllKeys(Tail(dicts), EntryKeys(Head(dicts).items, seen))

\* d[k] for a key the dict holds
Lookup(d, k) == LET i == CHOOSE j \in 1..Len(d.items) : d.items[j].k = k
                IN  d.items[i].v

HasKey(d, k) == \E j \in 1..Len(d.items) : d.items[j].k = k

\* key_values[k]: the values of k, in dict order, over the dicts holding k
RECURSIVE KeyValues(_, _)
KeyValues(dicts, k) ==
    IF dicts = <<>> THEN <<>>
    ELSE (IF HasKey(Head(dicts), k) THEN <<Lookup(Head(dicts), k)>> ELSE <<>>)
         \o KeyValues(Tail(dicts), k)

\* a dict without the key counted as holding None (d.get(k) for d[k])
KeyTypesWithMissing(dicts, k) ==
    LET vs == KeyValues(dicts, k)
    IN  {_type_name(vs[i]) : i \in 1..Len(vs)}
        \cup (IF \E i \in 1..Len(dicts) : ~HasKey(dicts[i], k)
              THEN {"NoneType"} ELSE {})

\* key_types[k] as a set
KeyTypes(dicts, k) ==
    LET vs == KeyValues(dicts, k) IN {_type_name(vs[i]) : i \in 1..Len(vs)}

\* only the first non-empty list is taken
RECURSIVE FlattenFirstNonEmpty(_)
FlattenFirstNonEmpty(vs) ==
    IF vs = <<>> THEN <<>>
    ELSE IF Head(vs).base = "list" /\ Head(vs).items # <<>> THEN Head(vs).items
    ELSE FlattenFirstNonEmpty(Tail(vs))

\* [item for lst in values if isinstance(lst, list) for item in lst]
RECURSIVE Flatten(_)
Flatten(vs) ==
    IF vs = <<>> THEN <<>>
    ELSE (IF Head(vs).base = "list" THEN Head(vs).items ELSE <<>>)
         \o Flatten(Tail(vs))

RECURSIVE infer_schema(_, _, _)
RECURSIVE _infer_dict(_, _, _)
RECURSIVE InferEntries(_, _)
RECURSIVE _infer_sequence(_, _, _)
RECURSIVE _merge_dict_schemas(_, _)
RECURSIVE MergeKeys(_, _, _)

infer_schema(d, k, m) ==
    IF IsDict(d) THEN _infer_dict(d, k, m)
    ELSE IF IsSequence(d) THEN _infer_sequence(d, k, m)
    ELSE Returned(SchemaNode(k, <<_type_name(d)>>, <<>>, NoneET), <<>>)

\* [infer_schema(v, key=k, max_items=m) for k, v in data.items()], left to
\* right; an exception ends the comprehension
InferEntries(es, m) ==
    IF es = <<>> THEN ReturnedList(<<>>, <<>>)
    ELSE LET h == infer_schema(Head(es).v, Head(es).k, m)
         IN  IF h.err # "none" THEN Raised(h.err, h.warns)
             ELSE LET t == InferEntries(Tail(es), m)
                  IN  IF t.err # "none" THEN Raised(t.err, h.warns \o t.warns)
                      ELSE ReturnedList(<<h.node>> \o t.nodes, h.warns \o t.warns)

\* the entries walked in reverse insertion order
_infer_dict_reversed(d, k, m) ==
    LET c == InferEntries(Reversed(d.items), m)
    IN  IF c.err # "none" THEN Raised(c.err, c.warns)
        ELSE Returned(SchemaNode(k, <<"dict">>, c.nodes, NoneET), c.warns)

_infer_dict(d, k, m) ==
    LET c == InferEntries(d.items, m)
    IN  IF c.err # "none" THEN Raised(c.err, c.warns)
        ELSE Returned(SchemaNode(k, <<"dict">>, c.nodes, NoneET), c.warns)

\* the single-type test made on the number of sampled elements
\* (len(sampled) == 1 for len(type_names) == 1)
_infer_sequence_by_count(d, k, m) ==
    LET container_type == _type_name(d) IN
    IF m < 0 THEN Raised("ValueError", <<>>)
    ELSE
    LET sampled == Islice(d.items, m)
        type_names == {_type_name(sampled[i]) : i \in 1..Len(sampled)}
    IN  IF sampled = <<>>
        THEN Returned(SchemaNode(k, <<container_type>>, <<>>, NoneET), <<>>)
        ELSE IF type_names = {"dict"}
        THEN LET c == _merge_dict_schemas(sampled, m)
             IN  IF c.err # "none" THEN Raised(c.err, c.warns)
                 ELSE Returned(SchemaNode(k, <<container_type>>, c.nodes, "dict"),
                               c.warns)
        ELSE IF Len(sampled) = 1
        THEN Returned(SchemaNode(k, <<container_type>>, <<>>,
                                 CHOOSE t \in type_names : TRUE), <<>>)
        ELSE Returned(SchemaNode(k, <<container_type>>, <<>>, NoneET),
                      <<MixedWarning(k, type_names)>>)

_infer_sequence(d, k, m) ==
    LET container_type == _type_name(d) IN
    IF m < 0 THEN Raised("ValueError", <<>>)    \* islice() rejects a negative stop
    ELSE
    LET sampled == Islice(d.items, m)
        type_names == {_type_name(sampled[i]) : i \in 1..Len(sampled)}
    IN  IF sampled = <<>>
        THEN Returned(SchemaNode(k, <<container_type>>, <<>>, NoneET), <<>>)
        ELSE IF type_names = {"dict"}
        THEN LET c == _merge_dict_schemas(sampled, m)
             IN  IF c.err # "none" THEN Raised(c.err, c.warns)
                 ELSE Returned(SchemaNode(k, <<container_type>>, c.nodes, "dict"),
                               c.warns)
        ELSE IF Cardinality(type_names) = 1
        THEN Returned(SchemaNode(k, <<container_type>>, <<>>,
                                 CHOOSE t \in type_names : TRUE), <<>>)
        ELSE Returned(SchemaNode(k, <<container_type>>, <<>>, NoneET),
                      <<MixedWarning(k, type_names)>>)

\* the dict branch taken as soon as some value is a dict ("dict" in distinct)
MergeOneDictAmong(dicts, k, m) ==
    LET distinct == Sorted(KeyTypes(dicts, k))
        values == KeyValues(dicts, k)
        dict_values == SelectSeq(values, IsDict)
    IN  IF dict_values # <<>>
        THEN LET c == _merge_dict_schemas(dict_values, m)
             IN  IF c.err # "none" THEN Raised(c.err, c.warns)
                 ELSE Returned(SchemaNode(k, distinct, c.nodes, NoneET), c.warns)
        ELSE IF distinct = <<"list">>
        THEN _infer_sequence(ListOf(Flatten(values)), k, m)
        ELSE Returned(SchemaNode(k, distinct, <<>>, NoneET), <<>>)

\* the body of the loop over all_keys, for one key
MergeOne(dicts, k, m) ==
    LET distinct == Sorted(KeyTypes(dicts, k))
        values == KeyValues(dicts, k)
    IN  IF distinct = <<"dict">>
        THEN LET c == _merge_dict_schemas(values, m)
             IN  IF c.err # "none" THEN Raised(c.err, c.warns)
                 ELSE Returned(SchemaNode(k, <<"dict">>, c.nodes, NoneET), c.warns)
        ELSE IF distinct = <<"list">>
        THEN _infer_sequence(ListOf(Flatten(values)), k, m)
        ELSE Returned(SchemaNode(k, distinct, <<>>, NoneET), <<>>)

MergeKeys(dicts, ks, m) ==
    IF ks = <<>> THEN ReturnedList(<<>>, <<>>)
    ELSE LET h == MergeOne(dicts, Head(ks), m)
         IN  IF h.err # "none" THEN Raised(h.err, h.warns)
             ELSE LET t == MergeKeys(dicts, Tail(ks), m)
                  IN  IF t.err # "none" THEN Raised(t.err, h.warns \o t.warns)
                      ELSE ReturnedList(<<h.node>> \o t.nodes, h.warns \o t.warns)

_merge_dict_schemas(dicts, m) == MergeKeys(dicts, AllKeys(dicts, <<>>), m)

----------------------------------------------------------------------------
(* _tree.py                                                                *)

_TEE == "|-- "
_ELBOW == "+-- "
_PIPE == "|   "
_SPACE == "    "

_SEQUENCE_TYPES == {"list", "tuple", "set", "frozenset"}

_format_type(node) ==
    IF Len(node.types) = 1 /\ node.types[1] \in _SEQUENCE_TYPES
    THEN IF node.element_type # NoneET /\ node.element_type # ""
         THEN node.types[1] \o "[" \o node.element_type \o "]"
         ELSE node.types[1]
    ELSE IF node.types = <<"dict">> THEN "dict"
    ELSE IF Len(node.types) = 1 THEN node.types[1]
    ELSE Repr(node.types)

\* f"{prefix}{connector}{child.key}: {_format_type(child)}"
ChildLine(prefix, connector, child) ==
    prefix \o connector \o child.key \o ": " \o _format_type(child)

Connector(i, n) == IF i = n THEN _ELBOW ELSE _TEE
\* the last child carrying the pipe forward like a middle child
ChildPrefixPipe(prefix, i, n) == prefix \o _PIPE

ChildPrefix(prefix, i, n) == prefix \o (IF i = n THEN _SPACE ELSE _PIPE)

\* the lines _render_children appends for children[i..], in order
RECURSIVE _render_children(_, _, _)
_render_children(children, i, prefix) ==
    IF i > Len(children) THEN <<>>
    ELSE LET child == children[i]
             n == Len(children)
         IN  <<ChildLine(prefix, Connector(i, n), child)>>
             \o (IF child.children # <<>>
                 THEN _render_children(child.children, 1, ChildPrefix(prefix, i, n))
                 ELSE <<>>)
             \o _render_children(children, i + 1, prefix)

\* the loop of _render_node over node.children[i..]
RECURSIVE RenderNodeLoop(_, _, _)
RenderNodeLoop(children, i, prefix) ==
    IF i > Len(children) THEN <<>>
    ELSE LET child == children[i]
             n == Len(children)
         IN  <<ChildLine(prefix, Connector(i, n), child)>>
             \o (IF child.children # <<>>
                 THEN _render_children(child.children, 1, ChildPrefix(prefix, i, n))
                 ELSE <<>>)
             \o RenderNodeLoop(children, i + 1, prefix)

\* is_root ignored: the root printed like any other node
OwnLineTyped(node, prefix, is_root) ==
    prefix \o node.key \o ": " \o _format_type(node)

\* the node's own line
OwnLine(node, prefix, is_root) ==
    IF is_root /\ node.types = <<"dict">>
    THEN prefix \o node.key
    ELSE prefix \o node.key \o ": " \o _format_type(node)

_render_node(node, prefix, is_root) ==
    <<OwnLine(node, prefix, is_root)>> \o RenderNodeLoop(node.children, 1, prefix)

\* "\n".join(lines)
RECURSIVE Join(_)
Join(ls) ==
    IF ls = <<>> THEN ""
    ELSE IF Len(ls) = 1 THEN ls[1]
    ELSE ls[1] \o "\n" \o Join(Tail(ls))

RenderLines(node) == _render_node(node, "", TRUE)

render(node) == Join(RenderLines(node))

----------------------------------------------------------------------------
(* Texts                                                                   *)

\* U+0000
Nul == "NUL"

\* the text xs repeated n times
Repeat(xs, n) == [i \in 1..(n * Len(xs)) |-> xs[((i - 1) % Len(xs)) + 1]]

UpperCase ==
    <<"A", "B", "C", "D", "E", "F", "G", "H", "I", "J", "K", "L", "M",
      "N", "O", "P", "Q", "R", "S", "T", "U", "V", "W", "X", "Y", "Z">>
LowerCase ==
    <<"a", "b", "c", "d", "e", "f", "g", "h", "i", "j", "k", "l", "m",
      "n", "o", "p", "q", "r", "s", "t", "u", "v", "w", "x", "y", "z">>

LowerChar(c) ==
    IF \E i \in 1..Len(UpperCase) : UpperCase[i] = c
    THEN LowerCase[CHOOSE i \in 1..Len(UpperCase) : UpperCase[i] = c]
    ELSE c

\* str.lower()
Lower(t) == [i \in 1..Len(t) |-> LowerChar(t[i])]

\* the elements of the set S of numbers, in ascending order
RECURSIVE Ascending(_)
Ascending(S) ==
    IF S = {} THEN <<>>
    ELSE LET m == CHOOSE x \in S : \A y \in S : x <= y
         IN  <<m>> \o Ascending(S \ {m})

----------------------------------------------------------------------------
(* Paths: pathlib's reading of a text                                      *)

Dot == <<".">>
DotDot == <<".", ".">>
Slash == <<"/">>

\* the suffix _load_path accepts
DotJson == <<".", "j", "s", "o", "n">>

\* the names of the directories and files used below
work == <<"w", "o", "r", "k">>
sub == <<"s", "u", "b">>
missing == <<"m", "i", "s", "s", "i", "n", "g">>
sample_json == <<"s", "a", "m", "p", "l", "e", ".", "j", "s", "o", "n">>
list_json == <<"l", "i", "s", "t", ".", "j", "s", "o", "n">>
DATA_JSON == <<"D", "A", "T", "A", ".", "J", "S", "O", "N">>
c_Json == <<"c", ".", "J", "s", "o", "n">>
name_json == <<"n", "a", "m", "e", ".", "j", "s", "o", "n">>
lib_py == <<"l", "i", "b", ".", "p", "y">>
bad_json == <<"b", "a", "d", ".", "j", "s", "o", "n">>
latin_json == <<"l", "a", "t", "i", "n", ".", "j", "s", "o", "n">>
locked_json == <<"l", "o", "c", "k", "e", "d", ".", "j", "s", "o", "n">>
x_json == <<"x", ".", "j", "s", "o", "n">>
missing_json == <<"m", "i", "s", "s", "i", "n", "g", ".", "j", "s", "o", "n">>

\* a component of t (a longest run without "/") starts at position i
StartsAt(t, i) == t[i] # "/" /\ (i = 1 \/ t[i - 1] = "/")

\* the last position of the component of t that starts at s
EndOf(t, s) ==
    CHOOSE e \in s..Len(t) :
        /\ (e = Len(t) \/ t[e + 1] = "/")
        /\ \A j \in s..e : t[j] # "/"

ComponentAt(t, s) == SubSeq(t, s, EndOf(t, s))

\* the components of t other than ".", in order: empty components (repeated
\* or trailing "/") and "." are dropped, ".." is kept
Parts(t) ==
    LET starts == Ascending({s \in 1..Len(t) :
                               StartsAt(t, s) /\ ComponentAt(t, s) # Dot})
    IN  [k \in 1..Len(starts) |-> ComponentAt(t, starts[k])]

IsAbsolute(t) == t # <<>> /\ t[1] = "/"

\* the root of a path: "//" for exactly two leading slashes, else "/"
Root(t) ==
    IF ~IsAbsolute(t) THEN <<>>
    ELSE IF Len(t) >= 2 /\ t[2] = "/" /\ (Len(t) = 2 \/ t[3] # "/")
    THEN <<"/", "/">>
    ELSE <<"/">>

\* ps[1] "/" ps[2] "/" ... ps[n]
RECURSIVE JoinParts(_)
JoinParts(ps) ==
    IF ps = <<>> THEN <<>>
    ELSE IF Len(ps) = 1 THEN ps[1]
    ELSE ps[1] \o <<"/">> \o JoinParts(Tail(ps))

\* the text of the path of the given root and parts: "." when it has neither
JoinPath(root, parts) ==
    IF root = <<>> /\ parts = <<>> THEN Dot ELSE root \o JoinParts(parts)

\* str(Path(t))
PathStr(t) == JoinPath(Root(t), Parts(t))

\* pathlib.Path(t)
PathOf(t) == [tag |-> "PosixPath", base |-> "Path", items |-> <<>>, val |-> PathStr(t)]

LastPart(parts) == IF parts = <<>> THEN <<>> ELSE parts[Len(parts)]

\* Path.name of the path of text t: the last part, "" when there is none
PathName(t) == LastPart(Parts(t))

\* Path.suffix, from the name: from the last "." on, unless that "." is the
\* first or the last character of the name
Suffix(name) ==
    LET dots == {i \in 1..Len(name) : name[i] = "."}
    IN  IF dots = {} THEN <<>>
        ELSE LET i == CHOOSE d \in dots : \A j \in dots : j <= d
             IN  IF 1 < i /\ i < Len(name) THEN SubSeq(name, i, Len(name))
                 ELSE <<>>

----------------------------------------------------------------------------
(* The file system (Linux), as stat() and open() see it: directories and   *)
(* regular files, no symbolic links, every directory searchable            *)

\* the longest file name, and the length a path must stay below, in bytes
NAME_MAX == 255
PATH_MAX == 4096

\* the working directory, as names from the root
Cwd == <<work>>

Dir(p) ==
    [path |-> p, kind |-> "dir", readable |-> TRUE, decodes |-> TRUE,
     parses |-> TRUE, content |-> NoneV]

\* a regular file the process may read, holding the JSON text of value v
JsonFile(p, v) ==
    [path |-> p, kind |-> "file", readable |-> TRUE, decodes |-> TRUE,
     parses |-> TRUE, content |-> v]

\* the entries: path (names from the root), kind, whether the process may
\* read the file, whether its bytes are UTF-8, whether its text is JSON, and
\* the value of that JSON
FileSystem ==
    { Dir(<<>>),
      Dir(Cwd),
      Dir(Cwd \o <<sub>>),
      JsonFile(Cwd \o <<sample_json>>, DictOf(<<Entry("a", IntV)>>)),
      JsonFile(Cwd \o <<list_json>>,
               ListOf(<<DictOf(<<Entry("a", IntV)>>), DictOf(<<Entry("b", StrV)>>)>>)),
      JsonFile(Cwd \o <<DATA_JSON>>, ListOf(<<IntV, StrV>>)),
      JsonFile(Cwd \o <<c_Json>>, DictOf(<<Entry("a", IntV)>>)),
      JsonFile(Cwd \o <<name_json>>, Str(sample_json)),
      JsonFile(Cwd \o <<lib_py>>, NoneV),
      JsonFile(Cwd \o <<DotJson>>, IntV),
      JsonFile(Cwd \o <<sub, x_json>>, ListOf(<<IntV>>)),
      [JsonFile(Cwd \o <<bad_json>>, NoneV) EXCEPT !.parses = FALSE],
      [JsonFile(Cwd \o <<latin_json>>, NoneV) EXCEPT !.decodes = FALSE],
      [JsonFile(Cwd \o <<locked_json>>, IntV) EXCEPT !.readable = FALSE] }

Exists(p) == \E e \in FileSystem : e.path = p

EntryAt(p) == CHOOSE e \in FileSystem : e.path = p

\* the directory holding p; the root holds itself
Parent(p) == IF p = <<>> THEN <<>> ELSE SubSeq(p, 1, Len(p) - 1)

Reached(p) == [errno |-> "none", path |-> p]
Failed(e) == [errno |-> e, path |-> <<>>]

\* the kernel's walk from the existing entry cur along parts[i..]
RECURSIVE Walk(_, _, _)
Walk(cur, parts, i) ==
    IF i > Len(parts) THEN Reached(cur)
    ELSE IF EntryAt(cur).kind # "dir" THEN Failed("ENOTDIR")
    ELSE IF parts[i] = DotDot THEN Walk(Parent(cur), parts, i + 1)
    ELSE IF Len(parts[i]) > NAME_MAX THEN Failed("ENAMETOOLONG")
    ELSE IF ~Exists(Append(cur, parts[i])) THEN Failed("ENOENT")
    ELSE Walk(Append(cur, parts[i]), parts, i + 1)

\* the text asks for a directory: it ends with "/" or with a component "."
MustBeDir(t) ==
    \/ t[Len(t)] = "/"
    \/ t[Len(t)] = "." /\ (Len(t) = 1 \/ t[Len(t) - 1] = "/")

\* the end r of the walk along the text t: a text that asks for a directory
\* must have reached one
Arrive(t, r) ==
    IF r.errno # "none" THEN r
    ELSE IF MustBeDir(t) /\ EntryAt(r.path).kind # "dir" THEN Failed("ENOTDIR")
    ELSE r

\* the entry the text t names, or the error: "NUL" when Python refuses the
\* text for its U+0000 before any system call, else the errno
Resolve(t) ==
    IF \E i \in 1..Len(t) : t[i] = Nul THEN Failed("NUL")
    ELSE IF t = <<>> THEN Failed("ENOENT")
    ELSE IF Len(t) >= PATH_MAX THEN Failed("ENAMETOOLONG")
    ELSE Arrive(t, Walk(IF IsAbsolute(t) THEN <<>> ELSE Cwd, Parts(t), 1))

\* the outcome of a call: the value returned, or the exception raised
Loaded(v) == [value |-> v, err |-> "none"]
LoadRaised(e) == [value |-> NoneV, err |-> e]

\* S_ISREG of the stat() result r, as Path.is_file() answers
IsRegular(r) ==
    IF r.errno \in {"NUL", "ENOENT", "ENOTDIR"} THEN [value |-> FALSE, err |-> "none"]
    ELSE IF r.errno = "ENAMETOOLONG" THEN [value |-> FALSE, err |-> "OSError"]
    ELSE [value |-> EntryAt(r.path).kind = "file", err |-> "none"]

\* Path.is_file() on the path of text t (str(path)): ENOENT and ENOTDIR are
\* answered False, and so is the ValueError of a U+0000; any other OSError
\* is raised
is_file(t) == IsRegular(Resolve(t))

NoFile == Dir(<<>>)

\* open() at the end r of the walk: the file opened, or the exception raised
OpenAt(r) ==
    IF r.errno = "NUL" THEN [file |-> NoFile, err |-> "ValueError"]
    ELSE IF r.errno = "ENOENT" THEN [file |-> NoFile, err |-> "FileNotFoundError"]
    ELSE IF r.errno = "ENOTDIR" THEN [file |-> NoFile, err |-> "NotADirectoryError"]
    ELSE IF r.errno = "ENAMETOOLONG" THEN [file |-> NoFile, err |-> "OSError"]
    ELSE IF EntryAt(r.path).kind = "dir"
    THEN [file |-> NoFile, err |-> "IsADirectoryError"]
    ELSE IF ~EntryAt(r.path).readable
    THEN [file |-> NoFile, err |-> "PermissionError"]
    ELSE [file |-> EntryAt(r.path), err |-> "none"]

\* open(t, encoding="utf-8")
Open(t) == OpenAt(Resolve(t))

\* json.load(f): the stream is read and decoded, then parsed
JsonLoad(f) ==
    IF ~f.decodes THEN LoadRaised("UnicodeDecodeError")
    ELSE IF ~f.parses THEN LoadRaised("JSONDecodeError")
    ELSE Loaded(f.content)

----------------------------------------------------------------------------
(* __init__.py: a str or Path naming a file is replaced by the file's JSON *)

\* path is a Path
_load_path(path) ==
    LET f == is_file(path.val)
    IN  IF f.err # "none" THEN LoadRaised(f.err)
        ELSE IF ~f.value THEN LoadRaised("FileNotFoundError")
        ELSE IF Lower(Suffix(PathName(path.val))) # DotJson
        THEN LoadRaised("ValueError")
        ELSE LET o == Open(path.val)
             IN  IF o.err # "none" THEN LoadRaised(o.err) ELSE JsonLoad(o.file)

\* isinstance(data, Path)
IsPath(v) == v.base = "Path"
\* isinstance(data, str)
IsStr(v) == v.base = "str"

_maybe_load(d) ==
    IF IsPath(d) THEN _load_path(d)
    ELSE IF IsStr(d)
    THEN LET p == PathOf(d.val)
             f == is_file(p.val)
         IN  IF f.err # "none" THEN LoadRaised(f.err)
             ELSE IF f.value THEN _load_path(p)
             ELSE Loaded(d)
    ELSE Loaded(d)

----------------------------------------------------------------------------
(* _cli.py                                                                 *)

\* the default of --max-items, and of max_items in schema_of, preview and
\* infer_schema
DefaultMaxItems == 10

\* the help message print_help writes, denoted by its usage line
HelpMessage == "usage: schema-preview [-h] [--max-items MAX_ITEMS] [file]"

\* what parse_args makes of sys.argv: it exits with status 2 on a usage
\* error and with status 0 after -h, else it returns the namespace, where
\* file is None and max_items is the default unless given
Namespace(file_given, file, max_items_given, n) ==
    [exit |-> "none",
     file |-> [given |-> file_given, text |-> file],
     max_items |-> [given |-> max_items_given, n |-> n]]

NoArgs == Namespace(FALSE, <<>>, FALSE, 0)
UsageError == [NoArgs EXCEPT !.exit = "usage"]
HelpAsked == [NoArgs EXCEPT !.exit = "help"]

\* sys.stdin: a terminal, or a stream, given by the text it yields: whether
\* that text is JSON, and the value of that JSON
Terminal ==
    [tty |-> TRUE, decodes |-> TRUE, parses |-> TRUE, content |-> NoneV]
Stream(parses, v) ==
    [tty |-> FALSE, decodes |-> TRUE, parses |-> parses, content |-> v]

\* lines 48-55: the value bound to data, or the exception
ReadInput(a, input) ==
    IF a.file.given
    THEN LET o == Open(a.file.text)
         IN  IF o.err # "none" THEN LoadRaised(o.err) ELSE JsonLoad(o.file)
    ELSE IF input.tty THEN LoadRaised("SystemExit(1)")
    ELSE JsonLoad(input)

----------------------------------------------------------------------------
(* The inputs                                                              *)

SeqsUpTo(S, n) == UNION {[1..k -> S] : k \in 0..n}

SetOf(xs) == InstanceOf("set", "set", xs)
FrozensetOf(xs) == InstanceOf("frozenset", "frozenset", xs)

\* elements of the lists and tuples tried
Elems == {IntV, StrV, NoneV, ListOf(<<IntV>>), TupleOf(<<>>)}

\* elements of the sets and frozensets tried: hashable, and None at most once
HashableElems == {IntV, StrV, NoneV, TupleOf(<<IntV>>)}

AtMostOneNone(xs) == Cardinality({i \in 1..Len(xs) : xs[i] = NoneV}) <= 1

FlatSequences ==
    {InstanceOf(t, t, xs) : t \in {"list", "tuple"}, xs \in SeqsUpTo(Elems, MaxLen)}
    \cup {InstanceOf(t, t, xs) :
            t \in {"set", "frozenset"},
            xs \in {ys \in SeqsUpTo(HashableElems, MaxLen) : AtMostOneNone(ys)}}

KeyNames == {"a", "b"}

\* the dicts of at most two entries over KeyNames, in either insertion order
Dicts(V) ==
    {DictOf(<<>>)}
    \cup {DictOf(<<Entry(k, v)>>) : k \in KeyNames, v \in V}
    \cup {DictOf(<<Entry(k1, v1), Entry(k2, v2)>>) :
            <<k1, k2>> \in {p \in KeyNames \X KeyNames : p[1] # p[2]},
            <<v1, v2>> \in V \X V}

MixedList == ListOf(<<IntV, StrV>>)

Level1 == Dicts({IntV, MixedList})

Level2 ==
    Dicts({StrV, TupleOf(<<IntV, IntV>>),
           DictOf(<<Entry("a", IntV), Entry("b", MixedList)>>),
           DictOf(<<Entry("b", NoneV)>>)})

Level3 ==
    Dicts({NoneV, MixedList, SetOf(<<>>),
           ListOf(<<DictOf(<<Entry("a", IntV)>>), DictOf(<<Entry("b", StrV)>>)>>),
           DictOf(<<Entry("a", DictOf(<<Entry("a", IntV), Entry("b", MixedList)>>)),
                    Entry("b", StrV)>>),
           DictOf(<<Entry("b", TupleOf(<<IntV, IntV>>)),
                    Entry("a", DictOf(<<Entry("b", NoneV)>>))>>)})

\* the dicts tried as elements of a list or tuple
ElementDicts ==
    { DictOf(<<>>),
      DictOf(<<Entry("a", IntV)>>),
      DictOf(<<Entry("a", NoneV)>>),
      DictOf(<<Entry("a", ListOf(<<IntV>>))>>),
      DictOf(<<Entry("a", MixedList)>>),
      DictOf(<<Entry("a", TupleOf(<<IntV>>))>>),
      DictOf(<<Entry("a", DictOf(<<Entry("a", IntV)>>))>>),
      DictOf(<<Entry("a", DictOf(<<Entry("b", ListOf(<<StrV>>))>>))>>),
      DictOf(<<Entry("b", StrV)>>),
      DictOf(<<Entry("a", IntV), Entry("b", StrV)>>),
      DictOf(<<Entry("b", ListOf(<<IntV>>)), Entry("a", IntV)>>),
      DictOf(<<Entry("a", ListOf(<<StrV>>)), Entry("b", NoneV)>>) }

DictSequences ==
    {InstanceOf(t, t, xs) :
        t \in {"list", "tuple"},
        xs \in SeqsUpTo(ElementDicts, MaxDicts) \ {<<>>}}

\* instances of subclasses of dict, list and tuple, alone and inside
\* lists, tuples, sets and dicts
SubclassInputs ==
    { OrderedDictOf(<<>>),
      OrderedDictOf(<<Entry("a", IntV)>>),
      OrderedDictOf(<<Entry("a", MixedList), Entry("b", MyListOf(<<IntV>>))>>),
      MyListOf(<<>>),
      MyListOf(<<IntV, IntV>>),
      MyListOf(<<IntV, StrV>>),
      MyListOf(<<DictOf(<<Entry("a", IntV)>>), DictOf(<<Entry("b", StrV)>>)>>),
      PointOf(IntV, IntV),
      PointOf(IntV, StrV),
      PointOf(DictOf(<<Entry("a", IntV)>>), DictOf(<<Entry("b", StrV)>>)),
      PointOf(DictOf(<<Entry("a", ListOf(<<IntV>>))>>),
              DictOf(<<Entry("a", ListOf(<<StrV>>))>>)),
      ListOf(<<OrderedDictOf(<<Entry("a", IntV)>>)>>),
      ListOf(<<OrderedDictOf(<<Entry("a", IntV)>>), DictOf(<<Entry("a", IntV)>>)>>),
      ListOf(<<PointOf(IntV, IntV), NoneV, OrderedDictOf(<<>>)>>),
      ListOf(<<DictOf(<<Entry("a", OrderedDictOf(<<Entry("a", IntV)>>))>>)>>),
      ListOf(<<DictOf(<<Entry("a", MyListOf(<<IntV>>))>>)>>),
      ListOf(<<DictOf(<<Entry("a", MyListOf(<<IntV>>))>>),
               DictOf(<<Entry("a", ListOf(<<IntV>>))>>)>>),
      ListOf(<<DictOf(<<Entry("a", PointOf(IntV, IntV))>>)>>),
      ListOf(<<DictOf(<<Entry("a", MyListOf(<<DictOf(<<Entry("b", IntV)>>)>>))>>)>>),
      TupleOf(<<MyListOf(<<IntV>>), ListOf(<<IntV>>)>>),
      SetOf(<<PointOf(IntV, IntV)>>),
      DictOf(<<Entry("a", MyListOf(<<IntV>>))>>),
      DictOf(<<Entry("a", MyListOf(<<DictOf(<<Entry("b", IntV)>>)>>))>>),
      DictOf(<<Entry("a", OrderedDictOf(<<Entry("a", IntV)>>))>>),
      DictOf(<<Entry("a", PointOf(IntV, StrV))>>) }

\* the texts tried as a path
PathTexts ==
    { sample_json,
      Dot \o Slash \o sample_json,
      sample_json \o Slash,
      sample_json \o Slash \o <<"x">>,
      Slash \o work \o Slash \o sample_json,
      Slash \o Slash \o work \o Slash \o sample_json,
      sub \o Slash \o DotDot \o Slash \o sample_json,
      missing \o Slash \o DotDot \o Slash \o sample_json,
      sub \o Slash \o x_json, sub, <<>>, Dot, missing_json,
      list_json, DATA_JSON, c_Json, name_json, lib_py,
      DotJson, bad_json, latin_json, locked_json,
      <<"x", Nul, "y">>,
      Repeat(<<"a">>, NAME_MAX), Repeat(<<"a">>, NAME_MAX + 1),
      Repeat(<<".", "/">>, (PATH_MAX - 12) \div 2) \o sample_json,
      Repeat(<<".", "/">>, (PATH_MAX - 10) \div 2) \o sample_json }

\* a str or a Path naming a path, alone and inside a list
PathInputs ==
    {Str(t) : t \in PathTexts} \cup {PathOf(t) : t \in PathTexts}
    \cup {ListOf(<<PathOf(sample_json), Str(sample_json)>>),
          ListOf(<<Str(sample_json)>>)}

Inputs ==
    {IntV, StrV, NoneV} \cup FlatSequences \cup Level1 \cup Level2 \cup Level3
    \cup DictSequences \cup SubclassInputs \cup PathInputs

\* the values of max_items tried: the default, when the caller gives none
MaxItemsValues == ((0 - 1) .. MaxItems) \cup {DefaultMaxItems}

\* the keys tried in a direct call of infer_schema
Keys == {"root", "item"}

\* --max-items left out, or given
CliMaxItems == {<<FALSE, 0>>, <<TRUE, 0 - 1>>, <<TRUE, 1>>}

\* the streams tried as sys.stdin
Streams ==
    { Stream(TRUE, DictOf(<<Entry("a", IntV)>>)),
      Stream(TRUE, Str(sample_json)),
      Stream(TRUE, ListOf(<<IntV, StrV>>)),
      Stream(TRUE, ListOf(<<DictOf(<<Entry("a", ListOf(<<IntV>>))>>),
                                  DictOf(<<Entry("a", ListOf(<<StrV>>))>>)>>)),
      Stream(FALSE, NoneV) }

\* the command lines tried, each with its sys.stdin
CommandLines ==
    {<<UsageError, Terminal>>, <<HelpAsked, Terminal>>}
    \cup {<<Namespace(TRUE, t, m[1], m[2]), Terminal>> :
            t \in PathTexts, m \in CliMaxItems}
    \cup {<<Namespace(FALSE, <<>>, m[1], m[2]), s>> :
            m \in CliMaxItems, s \in Streams \cup {Terminal}}

\* main's local data before it is bound
Unbound == Scalar("unbound")

----------------------------------------------------------------------------
(* The entry points                                                        *)

Init ==
    /\ \/ /\ entry \in {"schema_of", "preview"}
          /\ data \in Inputs
          /\ key = "root"
          /\ max_items \in MaxItemsValues
          /\ args = NoArgs
          /\ stdin = Terminal
       \/ /\ entry = "infer_schema"
          /\ data \in Inputs
          /\ key \in Keys
          /\ max_items \in MaxItemsValues
          /\ args = NoArgs
          /\ stdin = Terminal
       \/ /\ entry = "main"
          /\ data = Unbound
          /\ key = "root"
          /\ max_items = DefaultMaxItems
          /\ \E c \in CommandLines : args = c[1] /\ stdin = c[2]
    /\ stdout = <<>>
    /\ pc = "start"
    /\ result = NoNode
    /\ warns = <<>>
    /\ raised = "none"
    /\ lines = <<>>
    /\ text = ""

\* schema_of, and preview through it: data = _maybe_load(data)
Load ==
    /\ pc = "start"
    /\ entry \in {"schema_of", "preview"}
    /\ LET r == _maybe_load(data)
       IN  /\ data' = (IF r.err = "none" THEN r.value ELSE data)
           /\ raised' = r.err
    /\ pc' = "loaded"
    /\ UNCHANGED <<entry, args, stdin, stdout, key, max_items, result, warns,
                   lines, text>>

\* main: args = parser.parse_args()
ParseArgs ==
    /\ pc = "start"
    /\ entry = "main"
    /\ raised' = (IF args.exit = "usage" THEN "SystemExit(2)"
                  ELSE IF args.exit = "help" THEN "SystemExit(0)"
                  ELSE "none")
    /\ stdout' = (IF args.exit = "help" THEN Append(stdout, HelpMessage)
                  ELSE stdout)
    /\ max_items' = (IF args.exit = "none" /\ args.max_items.given
                     THEN args.max_items.n ELSE max_items)
    /\ pc' = "parsed"
    /\ UNCHANGED <<entry, args, stdin, data, key, result, warns, lines, text>>

\* main: data = json.load(f) for the file opened, or json.load(sys.stdin),
\* or the help message and exit status 1 when sys.stdin is a terminal
Read ==
    /\ pc = "parsed"
    /\ raised = "none"
    /\ LET r == ReadInput(args, stdin)
       IN  /\ data' = (IF r.err = "none" THEN r.value ELSE data)
           /\ raised' = r.err
    /\ stdout' = (IF ~args.file.given /\ stdin.tty
                  THEN Append(stdout, HelpMessage) ELSE stdout)
    /\ pc' = "loaded"
    /\ UNCHANGED <<entry, args, stdin, key, max_items, result, warns, lines, text>>

\* tree = infer_schema(data, max_items=max_items), or the direct call
\* infer_schema(data, key=key, max_items=max_items)
Infer ==
    /\ \/ pc = "loaded"
       \/ pc = "start" /\ entry = "infer_schema"
    /\ raised = "none"
    /\ LET r == infer_schema(data, key, max_items)
       IN  /\ result' = r.node
           /\ warns' = r.warns
           /\ raised' = r.err
    /\ pc' = "inferred"
    /\ UNCHANGED <<entry, args, stdin, stdout, data, key, max_items, lines, text>>

\* render(tree)
Render ==
    /\ pc = "inferred"
    /\ raised = "none"
    /\ lines' = RenderLines(result)
    /\ text' = render(result)
    /\ pc' = "rendered"
    /\ UNCHANGED <<entry, args, stdin, stdout, data, key, max_items, result,
                   warns, raised>>

\* preview: print(schema_of(...)); main: print(render(tree))
PrintText ==
    /\ pc = "rendered"
    /\ entry \in {"preview", "main"}
    /\ stdout' = Append(stdout, text \o "\n")
    /\ pc' = "printed"
    /\ UNCHANGED <<entry, args, stdin, data, key, max_items, result, warns,
                   raised, lines, text>>

Next == Load \/ ParseArgs \/ Read \/ Infer \/ Render \/ PrintText

Spec == Init /\ [][Next]_vars

----------------------------------------------------------------------------
(* Vocabulary of the properties                                            *)

Min(a, b) == IF a < b THEN a ELSE b

\* the first n elements of xs (all of xs when it is shorter)
Prefix(xs, n) == SubSeq(xs, 1, Min(n, Len(xs)))

TypesOf(xs) == {xs[i].tag : i \in 1..Len(xs)}

Range(xs) == {xs[i] : i \in 1..Len(xs)}

\* infer_schema has been called on data
Inferred == pc \in {"inferred", "rendered", "printed"}

\* render has been called on result
Rendered == pc \in {"rendered", "printed"}

\* a node with only its key and one type name
Bare(k, t) == SchemaNode(k, <<t>>, <<>>, NoneET)

ChildKeys(node) == [i \in 1..Len(node.children) |-> node.children[i].key]

\* data is a list or tuple (or an instance of a subclass of one), at least one
\* element is sampled, and the runtime type name of every sampled element is
\* "dict": the case in which _infer_sequence merges
SampledDicts ==
    /\ data.base \in {"list", "tuple"}
    /\ max_items >= 1
    /\ data.items # <<>>
    /\ TypesOf(Prefix(data.items, max_items)) = {"dict"}

\* the message of the diagnostic for key k and the set T of type names
ExpectedMessage(k, T) ==
    LET ts == CHOOSE q \in [1..Cardinality(T) -> T] :
                  \A i, j \in 1..Cardinality(T) : i < j => Rank(q[i]) < Rank(q[j])
    IN  "Key '" \o k \o "': mixed types in list: " \o Repr(ts)

----------------------------------------------------------------------------
(* C1: a dict input gives a node of types <<"dict">> without element_type, *)
(* with one child per entry, in insertion order, each child the schema of  *)
(* the entry's value under the same max_items (max_items >= 0); a mixed    *)
(* sequence among the values does not end the traversal.                   *)

C1_DictChildren ==
    (Inferred /\ IsDict(data) /\ max_items >= 0) =>
        /\ raised = "none"
        /\ result.key = key
        /\ result.types = <<"dict">>
        /\ result.element_type = NoneET
        /\ Len(result.children) = Len(data.items)
        /\ \A i \in 1..Len(data.items) :
              /\ result.children[i].key = data.items[i].k
              /\ result.children[i]
                    = infer_schema(data.items[i].v, data.items[i].k, max_items).node

\* a dict whose first value is a mixed list: the diagnostic is emitted and
\* the second entry still has its child
C1_Witness ==
    /\ pc = "inferred"
    /\ data = DictOf(<<Entry("b", MixedList), Entry("a", IntV)>>)
    /\ max_items = 2
    /\ Len(warns) = 1
    /\ ChildKeys(result) = <<"b", "a">>

(* C2: for a list or tuple and max_items >= 0 the node and the diagnostics *)
(* are those of the prefix of length min(max_items, len): no element at an *)
(* index >= max_items has any influence.  The prefix of an instance of a   *)
(* subclass of list or tuple is taken in the same class.                   *)

C2_OnlyPrefixInspected ==
    (Inferred /\ data.base \in {"list", "tuple"} /\ max_items >= 0) =>
        LET p == [data EXCEPT !.items = Prefix(data.items, max_items)]
            r == infer_schema(p, key, max_items)
        IN  /\ raised = r.err
            /\ result = r.node
            /\ warns = r.warns

\* a list whose second element has another type than the first, sampled to 1
C2_Witness ==
    /\ pc = "inferred"
    /\ data = ListOf(<<IntV, StrV>>)
    /\ max_items = 1
    /\ result.element_type = "int"
    /\ warns = <<>>

(* C3 as stated: a sequence holding 2+ runtime types always emits exactly  *)
(* one diagnostic and yields the bare container node.                      *)

C3_MixedAlways ==
    (Inferred /\ IsSequence(data) /\ max_items >= 1
        /\ Cardinality(TypesOf(data.items)) >= 2) =>
        /\ Len(warns) = 1
        /\ result = Bare(key, data.tag)

(* C3, amended: a sequence whose sampled elements (the first max_items,    *)
(* max_items >= 0) hold 2+ runtime types emits exactly one diagnostic,     *)
(* "Key '<key>': mixed types in list: <sorted type names>", and yields the *)
(* bare container node; the same holds for each such sequence that is a    *)
(* value of a dict input.                                                  *)

MixedSample(v) ==
    /\ IsSequence(v)
    /\ max_items >= 0
    /\ Cardinality(TypesOf(Prefix(v.items, max_items))) >= 2

C3_MixedSampled ==
    /\ (Inferred /\ MixedSample(data)) =>
          /\ raised = "none"
          /\ warns = <<ExpectedMessage(key, TypesOf(Prefix(data.items, max_items)))>>
          /\ result = Bare(key, data.tag)
    /\ (Inferred /\ IsDict(data) /\ max_items >= 0
          /\ \A i \in 1..Len(data.items) :
                ~IsDict(data.items[i].v) /\ "dict" \notin TypesOf(data.items[i].v.items)) =>
          LET mixed == {i \in 1..Len(data.items) : MixedSample(data.items[i].v)}
          IN  /\ Len(warns) = Cardinality(mixed)
              /\ \A i \in mixed :
                    /\ result.children[i] = Bare(data.items[i].k, data.items[i].v.tag)
                    /\ \E j \in 1..Len(warns) :
                          warns[j] = ExpectedMessage(data.items[i].k,
                                        TypesOf(Prefix(data.items[i].v.items, max_items)))

\* a tuple of three types, sampled to its first two
C3_Witness ==
    /\ pc = "inferred"
    /\ data = TupleOf(<<StrV, IntV, NoneV>>)
    /\ max_items = 2
    /\ warns = <<"Key 'root': mixed types in list: ['int', 'str']">>
    /\ result = Bare("root", "tuple")

(* C4: when the sampled elements are all dicts, the children hold exactly  *)
(* one child per key of the union of the sampled dicts' keys, ordered by   *)
(* first occurrence (dicts in order, each dict in insertion order); the    *)
(* set of child keys is the same for every permutation of the sampled      *)
(* dicts, the order is not.                                                *)

\* where key k is first seen: <<index of the dict, index of the entry>>
FirstSeenAt(dicts, k) ==
    LET i == CHOOSE i \in 1..Len(dicts) :
                 /\ HasKey(dicts[i], k)
                 /\ \A j \in 1..(i - 1) : ~HasKey(dicts[j], k)
        e == CHOOSE e \in 1..Len(dicts[i].items) : dicts[i].items[e].k = k
    IN  <<i, e>>

Before(p, q) == p[1] < q[1] \/ (p[1] = q[1] /\ p[2] < q[2])

UnionOfKeys(dicts) ==
    UNION {{dicts[i].items[e].k : e \in 1..Len(dicts[i].items)} : i \in 1..Len(dicts)}

Orderings(n) == {f \in [1..n -> 1..n] : \A i, j \in 1..n : f[i] = f[j] => i = j}

C4_MergedKeys ==
    (Inferred /\ SampledDicts) =>
        LET sampled == Prefix(data.items, max_items)
            ks == ChildKeys(result)
            n == Len(sampled)
        IN  /\ Range(ks) = UnionOfKeys(sampled)
            /\ Len(ks) = Cardinality(UnionOfKeys(sampled))
            /\ \A i, j \in 1..Len(ks) :
                  i < j => Before(FirstSeenAt(sampled, ks[i]), FirstSeenAt(sampled, ks[j]))
            /\ \A f \in Orderings(n) :
                  LET permuted == [data EXCEPT !.items = [i \in 1..n |-> sampled[f[i]]]]
                  IN  Range(ChildKeys(infer_schema(permuted, key, max_items).node))
                        = Range(ks)

\* the dicts {b} then {a}: the children are b then a, not a then b
C4_Witness ==
    /\ pc = "inferred"
    /\ data = ListOf(<<DictOf(<<Entry("b", StrV)>>), DictOf(<<Entry("a", IntV)>>)>>)
    /\ max_items = 2
    /\ ChildKeys(result) = <<"b", "a">>
    /\ ChildKeys(infer_schema(
            ListOf(<<DictOf(<<Entry("a", IntV)>>), DictOf(<<Entry("b", StrV)>>)>>),
            key, max_items).node) = <<"a", "b">>

(* C5: in the merge, a key whose collected type names are neither exactly  *)
(* {dict} nor exactly {list} gets a child whose types is the ascending,    *)
(* duplicate-free list of the type names of its values over the dicts that *)
(* hold it, without children or element_type.                              *)

C5_MergedTypes ==
    (Inferred /\ SampledDicts) =>
        LET sampled == Prefix(data.items, max_items) IN
        \A c \in 1..Len(result.children) :
            LET child == result.children[c]
                T == {Lookup(sampled[i], child.key).tag :
                        i \in {j \in 1..Len(sampled) : HasKey(sampled[j], child.key)}}
            IN  (T # {"dict"} /\ T # {"list"}) =>
                    /\ child.children = <<>>
                    /\ child.element_type = NoneET
                    /\ Range(child.types) = T
                    /\ Len(child.types) = Cardinality(T)
                    /\ \A i, j \in 1..Len(child.types) :
                          i < j => Rank(child.types[i]) < Rank(child.types[j])

\* key a holds 1 in the first dict and None in the second, which lacks key b
C5_Witness ==
    /\ pc = "inferred"
    /\ data = ListOf(<<DictOf(<<Entry("a", IntV), Entry("b", StrV)>>),
                       DictOf(<<Entry("a", NoneV)>>)>>)
    /\ max_items = 2
    /\ result.children = <<SchemaNode("a", <<"NoneType", "int">>, <<>>, NoneET),
                           SchemaNode("b", <<"str">>, <<>>, NoneET)>>

(* C6: the first line of render(node) is node.key alone exactly when       *)
(* node.types is <<"dict">>; any other root is printed "<key>: <type>".    *)
(* render(infer({})) is "root", render(infer([1,2,3])) "root: list[int]".  *)

\* the type suffix, from the node's fields
TypeSuffix(node) ==
    IF Len(node.types) # 1 THEN Repr(node.types)
    ELSE IF node.types[1] \in {"list", "tuple", "set", "frozenset"}
            /\ node.element_type # NoneET
         THEN node.types[1] \o "[" \o node.element_type \o "]"
         ELSE node.types[1]

C6_RootLine ==
    Rendered =>
        /\ lines # <<>>
        /\ (lines[1] = result.key) <=> (result.types = <<"dict">>)
        /\ (result.types # <<"dict">>) =>
              lines[1] = result.key \o ": " \o TypeSuffix(result)
        /\ (Len(lines) = 1) => text = lines[1]
        /\ (data = DictOf(<<>>) /\ key = "root") => text = "root"
        /\ (data = ListOf(<<IntV, IntV, IntV>>) /\ key = "root" /\ max_items >= 1) =>
              text = "root: list[int]"

\* the list [1, 2, 3] rendered
C6_Witness ==
    /\ pc = "rendered"
    /\ data = ListOf(<<IntV, IntV, IntV>>)
    /\ max_items = 3
    /\ result.types = <<"list">>
    /\ text = "root: list[int]"

(* C7: render gives one line per node, in depth-first pre-order, joined by *)
(* single newlines without a trailing one; a node at depth d >= 1 is       *)
(* printed <prefix><connector><key>: <type>, the connector telling whether *)
(* the node is its parent's last child, the prefix made of one piece per   *)
(* proper ancestor at depths 1..d-1 (four spaces for a last child, a pipe  *)
(* and three spaces otherwise).  _render_node and _render_children give    *)
(* this one layout.                                                        *)

\* the node reached from root by the child indices of path p
RECURSIVE NodeAt(_, _)
NodeAt(root, p) ==
    IF p = <<>> THEN root ELSE NodeAt(root.children[Head(p)], Tail(p))

\* the paths of the nodes of the tree, in depth-first pre-order
RECURSIVE PreOrder(_, _, _)
PreOrder(node, p, i) ==
    IF i = 0 THEN <<p>> \o PreOrder(node, p, 1)
    ELSE IF i > Len(node.children) THEN <<>>
    ELSE PreOrder(node.children[i], Append(p, i), 0) \o PreOrder(node, p, i + 1)

\* the node at depth j of path p is the last child of its parent
IsLastAt(root, p, j) == p[j] = Len(NodeAt(root, SubSeq(p, 1, j - 1)).children)

RECURSIVE AncestorPrefix(_, _, _)
AncestorPrefix(root, p, j) ==
    IF j >= Len(p) THEN ""
    ELSE (IF IsLastAt(root, p, j) THEN "    " ELSE "|   ")
         \o AncestorPrefix(root, p, j + 1)

LineOf(root, p) ==
    LET node == NodeAt(root, p)
    IN  AncestorPrefix(root, p, 1)
        \o (IF IsLastAt(root, p, Len(p)) THEN "+-- " ELSE "|-- ")
        \o node.key \o ": " \o TypeSuffix(node)

\* ls[1], newline, ls[2], ..., newline, ls[n]
RECURSIVE Joined(_, _)
Joined(ls, n) ==
    IF n = 0 THEN "" ELSE IF n = 1 THEN ls[1]
    ELSE Joined(ls, n - 1) \o "\n" \o ls[n]

C7_Layout ==
    Rendered =>
        LET ps == PreOrder(result, <<>>, 0)
        IN  /\ Len(lines) = Len(ps)
            /\ \A i \in 2..Len(ps) : lines[i] = LineOf(result, ps[i])
            /\ text = Joined(lines, Len(lines))

\* three levels below the root, with middle and last children at each
C7_Witness ==
    /\ pc = "rendered"
    /\ max_items = 2
    /\ lines = << "root",
                  "|-- b: dict",
                  "|   |-- b: tuple[int]",
                  "|   +-- a: dict",
                  "|       +-- b: NoneType",
                  "+-- a: dict",
                  "    |-- a: dict",
                  "    |   |-- a: int",
                  "    |   +-- b: list",
                  "    +-- b: str" >>

(* C8 as stated: infer_schema never fails, and for every max_items <= 0,   *)
(* negative ones included, a sequence gives the bare container node, no    *)
(* error and no diagnostic.                                                *)

C8_NonPositiveUnsampled ==
    /\ Inferred => raised = "none"
    /\ (Inferred /\ IsSequence(data) /\ max_items <= 0) =>
          /\ result = Bare(key, data.tag)
          /\ warns = <<>>

(* C9 as stated: for a homogeneous sequence of length > 0 (sequences of    *)
(* dicts included) and max_items >= len, element_type is the one element   *)
(* type and the whole tree is the same for every max_items >= len.         *)

Homogeneous(v) ==
    /\ IsSequence(v)
    /\ v.items # <<>>
    /\ Cardinality(TypesOf(v.items)) = 1

\* the values of max_items at or beyond the length of data
Saturating == Len(data.items) .. (MaxItems + 1)

C9_SaturatedWholeTree ==
    (Inferred /\ Homogeneous(data) /\ max_items >= Len(data.items)) =>
        /\ result.element_type \in TypesOf(data.items)
        /\ \A m2 \in Saturating : infer_schema(data, key, m2).node = result

(* C9, amended: for a homogeneous sequence of length > 0 and max_items >=  *)
(* len, element_type is the one element type; every max_items >= len      *)
(* gives the same types and element_type and the same children keys, in    *)
(* the same order and with the same types; the whole tree and the          *)
(* diagnostics are the same when the elements are not dicts.               *)

C9_Saturated ==
    (Inferred /\ Homogeneous(data) /\ max_items >= Len(data.items)) =>
        /\ raised = "none"
        /\ result.element_type \in TypesOf(data.items)
        /\ \A m2 \in Saturating :
              LET r2 == infer_schema(data, key, m2)
              IN  /\ r2.err = "none"
                  /\ r2.node.types = result.types
                  /\ r2.node.element_type = result.element_type
                  /\ ChildKeys(r2.node) = ChildKeys(result)
                  /\ \A c \in 1..Len(result.children) :
                        r2.node.children[c].types = result.children[c].types
                  /\ ("dict" \notin TypesOf(data.items)) =>
                        (r2.node = result /\ r2.warns = warns)

\* one dict holding a two-type list: max_items = 1 = len samples one element
\* of the list, max_items = 2 samples both
C9_Witness ==
    /\ pc = "inferred"
    /\ data = ListOf(<<DictOf(<<Entry("a", MixedList)>>)>>)
    /\ max_items = 1
    /\ result.element_type = "dict"
    /\ result.children = <<SchemaNode("a", <<"list">>, <<>>, "int")>>
    /\ infer_schema(data, key, 2).node.children = <<Bare("a", "list")>>

(* C10 as stated: an empty list, tuple, set or frozenset gives, for any    *)
(* max_items, the bare container node and no diagnostic, and is rendered   *)
(* "<key>: <container type>" at the root and as a child.                   *)

EmptyContainer(v) == IsSequence(v) /\ v.items = <<>>

C10_EmptyContainers ==
    /\ (Inferred /\ EmptyContainer(data)) =>
          /\ raised = "none"
          /\ result = Bare(key, data.tag)
          /\ warns = <<>>
          /\ Rendered => text = key \o ": " \o data.tag
    /\ (Inferred /\ IsDict(data)) =>
          \A i \in 1..Len(data.items) :
              EmptyContainer(data.items[i].v) =>
                  /\ raised = "none"
                  /\ result.children[i] = Bare(data.items[i].k, data.items[i].v.tag)
                  /\ Rendered =>
                        \E j \in 2..Len(lines) :
                            lines[j] = (IF i = Len(data.items) THEN "+-- " ELSE "|-- ")
                                       \o data.items[i].k \o ": " \o data.items[i].v.tag

(* C11: in the merge, a key whose values are lists in every dict holding   *)
(* it gets the child infer_schema gives for the concatenation, in dict     *)
(* order, of those lists (same key, same max_items): max_items caps the    *)
(* combined pool once, not each list.  This holds at every level of the    *)
(* merge (dict values merged under one key), and the diagnostics are those *)
(* of the pools.                                                           *)

\* the values the dicts hold under k, in dict order, from dict i on
RECURSIVE ValuesUnder(_, _, _)
ValuesUnder(dicts, k, i) ==
    IF i > Len(dicts) THEN <<>>
    ELSE (IF HasKey(dicts[i], k) THEN <<Lookup(dicts[i], k)>> ELSE <<>>)
         \o ValuesUnder(dicts, k, i + 1)

\* the elements of the sequences vs[i], vs[i+1], ..., one after the other
RECURSIVE Concatenation(_, _)
Concatenation(vs, i) ==
    IF i > Len(vs) THEN <<>> ELSE vs[i].items \o Concatenation(vs, i + 1)

\* the children are those of the merge of dicts, as far as list keys go
RECURSIVE PooledLists(_, _, _)
PooledLists(dicts, children, m) ==
    \A c \in 1..Len(children) :
        LET k == children[c].key
            vs == ValuesUnder(dicts, k, 1)
        IN  /\ (TypesOf(vs) = {"list"}) =>
                  children[c] = infer_schema(ListOf(Concatenation(vs, 1)), k, m).node
            /\ (TypesOf(vs) = {"dict"}) =>
                  PooledLists(vs, children[c].children, m)

\* the diagnostics of the pools of the keys ks[i..], when no key holds dicts
RECURSIVE PoolWarnings(_, _, _, _)
PoolWarnings(dicts, ks, i, m) ==
    IF i > Len(ks) THEN <<>>
    ELSE LET vs == ValuesUnder(dicts, ks[i], 1)
         IN  (IF TypesOf(vs) = {"list"}
              THEN infer_schema(ListOf(Concatenation(vs, 1)), ks[i], m).warns
              ELSE <<>>)
             \o PoolWarnings(dicts, ks, i + 1, m)

C11_ListsPooled ==
    (Inferred /\ SampledDicts) =>
        LET sampled == Prefix(data.items, max_items)
        IN  /\ PooledLists(sampled, result.children, max_items)
            /\ (\A c \in 1..Len(result.children) :
                    TypesOf(ValuesUnder(sampled, result.children[c].key, 1)) # {"dict"})
                 => warns = PoolWarnings(sampled, ChildKeys(result), 1, max_items)

\* the lists [1] and [1, 'x'] under key a, max_items = 2: the pool [1, 1, 'x']
\* is cut to [1, 1], so the child is list[int] and nothing is reported
C11_Witness ==
    /\ pc = "inferred"
    /\ data = ListOf(<<DictOf(<<Entry("a", ListOf(<<IntV>>))>>),
                       DictOf(<<Entry("a", MixedList)>>)>>)
    /\ max_items = 2
    /\ result.children = <<SchemaNode("a", <<"list">>, <<>>, "int")>>
    /\ warns = <<>>

(* C12 as stated: a node has element_type set exactly when it represents a *)
(* sequence with at least one sampled element whose sampled elements share *)
(* one runtime type name, and element_type is then that name; when the     *)
(* name is not "dict" the node has no children.  Stated for the root, for  *)
(* the children of a dict input, and for the children of a sequence whose  *)
(* sample is one dict (each child then represents that dict's value).      *)

HomogeneousSample(v, m) ==
    /\ IsSequence(v)
    /\ Prefix(v.items, m) # <<>>
    /\ Cardinality(TypesOf(Prefix(v.items, m))) = 1

\* node is the node of value v as far as element_type goes
ElementTypeRule(v, node, m) ==
    /\ (node.element_type # NoneET) <=> HomogeneousSample(v, m)
    /\ HomogeneousSample(v, m) =>
          /\ node.types = <<v.tag>>
          /\ node.element_type \in TypesOf(Prefix(v.items, m))
    /\ (node.element_type \notin {NoneET, "dict"}) => node.children = <<>>

C12_ElementTypeIff ==
    (Inferred /\ max_items >= 0) =>
        /\ ElementTypeRule(data, result, max_items)
        /\ IsDict(data) =>
              \A i \in 1..Len(data.items) :
                  ElementTypeRule(data.items[i].v, result.children[i], max_items)
        /\ (SampledDicts /\ Len(Prefix(data.items, max_items)) = 1) =>
              \A i \in 1..Len(data.items[1].items) :
                  ElementTypeRule(data.items[1].items[i].v, result.children[i], max_items)

(* C13 as stated: in every tree infer_schema returns (max_items >= 0), a   *)
(* node with children has types <<"dict">> or one of the four names list,  *)
(* tuple, set, frozenset: no node with two or more type names and no       *)
(* scalar node has children.                                               *)

C13_ChildrenOnlyUnderContainers ==
    (Inferred /\ max_items >= 0) =>
        /\ raised = "none"
        /\ \A p \in Range(PreOrder(result, <<>>, 0)) :
              LET node == NodeAt(result, p)
              IN  (node.children # <<>>) =>
                      /\ Len(node.types) = 1
                      /\ node.types[1] \in {"dict", "list", "tuple", "set", "frozenset"}

(* C13, amended: in every tree infer_schema returns (max_items >= 0), a    *)
(* node with children has exactly one type name, which is "dict" (without  *)
(* element_type) or the runtime type name of a sequence container: list,   *)
(* tuple, set, frozenset or the name of a subclass of one of them (with    *)
(* element_type "dict"); the root with children carries "dict" for a dict  *)
(* input and the input's own type name for a sequence input.  No node with *)
(* two or more type names and no scalar node has children.                 *)

\* the runtime type names of the sequence containers tried
SequenceTypeNames == {"list", "tuple", "set", "frozenset", "MyList", "Point"}

C13_ChildrenUnderContainerTypes ==
    (Inferred /\ max_items >= 0) =>
        /\ raised = "none"
        /\ \A p \in Range(PreOrder(result, <<>>, 0)) :
              LET node == NodeAt(result, p)
              IN  (node.children # <<>>) =>
                      /\ Len(node.types) = 1
                      /\ \/ node.types = <<"dict">> /\ node.element_type = NoneET
                         \/ /\ node.types[1] \in SequenceTypeNames
                            /\ node.element_type = "dict"
        /\ (result.children # <<>>) =>
              \/ IsDict(data) /\ result.types = <<"dict">>
              \/ IsSequence(data) /\ result.types = <<data.tag>>

\* an instance of a subclass of list holding two dicts: the node carries the
\* subclass name and the merged children
C13_Witness ==
    /\ pc = "inferred"
    /\ data = MyListOf(<<DictOf(<<Entry("a", IntV)>>), DictOf(<<Entry("b", StrV)>>)>>)
    /\ max_items = 2
    /\ result.types = <<"MyList">>
    /\ result.element_type = "dict"
    /\ ChildKeys(result) = <<"a", "b">>

(* C14 as stated: for a dict d and max_items >= 1 the children of          *)
(* infer_schema([d]) (the merge path) equal, node for node, the children   *)
(* of infer_schema(d) (the mapping path).                                  *)

C14_MergePathAgrees ==
    (Inferred /\ data.tag = "list" /\ Len(data.items) = 1 /\ IsDict(data.items[1])
        /\ max_items >= 1) =>
        /\ raised = "none"
        /\ result.children = infer_schema(data.items[1], key, max_items).node.children

(* C15 as stated: if every sequence container occurring anywhere in the    *)
(* input has all of its elements of one runtime type, infer_schema emits   *)
(* no diagnostic, for any max_items >= 0.                                  *)

\* every list, tuple, set and frozenset in v, at any depth, holds elements
\* of one runtime type
RECURSIVE AllHomogeneous(_)
AllHomogeneous(v) ==
    IF IsDict(v) THEN \A i \in 1..Len(v.items) : AllHomogeneous(v.items[i].v)
    ELSE IF IsSequence(v)
    THEN /\ Cardinality(TypesOf(v.items)) <= 1
         /\ \A i \in 1..Len(v.items) : AllHomogeneous(v.items[i])
    ELSE TRUE

C15_NoDiagnosticIfHomogeneous ==
    (Inferred /\ max_items >= 0 /\ AllHomogeneous(data)) => warns = <<>>

(* C15, amended: if every sequence container occurring anywhere in the     *)
(* input has all of its elements of one runtime type and, wherever dicts   *)
(* are merged (the dicts of one sequence, the dicts they hold under one    *)
(* key, the dicts of a pool of lists), the lists they hold under one key   *)
(* have, taken together, elements of one runtime type, then infer_schema   *)
(* emits no diagnostic, for any max_items >= 0.                            *)

IsList(v) == v.tag = "list"

\* the lists the dicts hold under one key agree on their element type, and
\* so on in the dicts merged below
RECURSIVE PoolsAgree(_)
PoolsAgree(dicts) ==
    \A k \in UnionOfKeys(dicts) :
        LET vs == ValuesUnder(dicts, k, 1)
            pool == Concatenation(SelectSeq(vs, IsList), 1)
        IN  /\ Cardinality(TypesOf(pool)) <= 1
            /\ (TypesOf(pool) = {"dict"}) => PoolsAgree(pool)
            /\ PoolsAgree(SelectSeq(vs, IsDict))

\* PoolsAgree for every sequence of dicts infer_schema can reach in v
RECURSIVE MergesAgree(_)
MergesAgree(v) ==
    IF IsDict(v) THEN \A i \in 1..Len(v.items) : MergesAgree(v.items[i].v)
    ELSE IF IsSequence(v) /\ TypesOf(v.items) = {"dict"} THEN PoolsAgree(v.items)
    ELSE TRUE

C15_NoDiagnosticIfPoolsAgree ==
    (Inferred /\ max_items >= 0 /\ AllHomogeneous(data) /\ MergesAgree(data)) =>
        /\ raised = "none"
        /\ warns = <<>>

\* two dicts holding an int list each under key a: the pool is [1, 1]
C15_Witness ==
    /\ pc = "inferred"
    /\ data = ListOf(<<DictOf(<<Entry("a", ListOf(<<IntV>>))>>),
                       DictOf(<<Entry("a", ListOf(<<IntV>>))>>)>>)
    /\ max_items = 2
    /\ result.children = <<SchemaNode("a", <<"list">>, <<>>, "int")>>
    /\ warns = <<>>

====
